---- MODULE Spec2Model ----
(***************************************************************************)
(* Offline-resilience layer of the card-scanning widget                    *)
(* (src/scan-api-pwa.js): the service worker's install / activate / fetch  *)
(* / sync handlers, syncScans, and the widget's handleNetworkChange and    *)
(* saveForOffline.                                                         *)
(*                                                                         *)
(* Every `await` / `.then` of the source is a separate step, so that the   *)
(* interleavings the event loop allows are the interleavings of the model. *)
(* A URL is the sequence of the pieces of its string between the "/"       *)
(* characters ('/index.html' is <<"", "index.html">>), which makes         *)
(* String.includes('/api/') exact.                                         *)
(***************************************************************************)
EXTENDS Integers, Sequences, FiniteSets, TLC

(***************************************************************************)
(* Bounds of the model.                                                    *)
(***************************************************************************)
\* entries saveForOffline may add in one behaviour
MaxAdds == 2
\* fetch events that may be in flight at the same time
MaxFetch == 1
\* versions of its content the network may serve (0..MaxVer)
MaxVer == 1
\* values Date.now() may return (0..MaxClock)
MaxClock == 0

(***************************************************************************)
(* URLs.                                                                   *)
(***************************************************************************)
Origin == <<"https:", "", "app.example">>

\* a URL string resolved against the worker's origin (what cache.addAll and
\* Request do with '/index.html'); an absolute URL is kept
Absolute(u) == IF u[1] = "" THEN Origin \o Tail(u) ELSE u

\* line 2
CACHE_NAME == "mobicard-scanner-v1"

\* lines 3-11
ASSETS_TO_CACHE ==
  << <<"", "">>,
     <<"", "index.html">>,
     <<"", "styles.css">>,
     <<"", "mobicard-scanner.js">>,
     <<"https:", "", "code.jquery.com", "jquery-3.7.1.min.js">>,
     <<"https:", "", "cdn.jsdelivr.net", "npm", "bootstrap@4.6.2", "dist", "css", "bootstrap.min.css">>,
     <<"https:", "", "cdn.jsdelivr.net", "npm", "bootstrap@4.6.2", "dist", "js", "bootstrap.bundle.min.js">> >>

AssetUrls == { Absolute(ASSETS_TO_CACHE[i]) : i \in 1..Len(ASSETS_TO_CACHE) }

\* event.request.url.includes('/api/') (line 48): the string holds "/api/"
\* exactly when a piece that is neither the first nor the last is "api"
IncludesApi(url) == \E i \in 2..(Len(url) - 1) : url[i] = "api"

\* the URLs pages ask for: a precached asset, an asset that is not
\* precached, two URLs of the submission API
StylesUrl == Absolute(<<"", "styles.css">>)
LogoUrl == Absolute(<<"", "img", "logo.png">>)
ApiScanUrl == Absolute(<<"", "api", "v1", "scan">>)
ApiCardsUrl == Absolute(<<"", "api", "cards">>)
FetchUrls == {StylesUrl, LogoUrl, ApiScanUrl, ApiCardsUrl}
Requests ==
  { [method |-> "GET", url |-> StylesUrl],
    [method |-> "GET", url |-> LogoUrl],
    [method |-> "POST", url |-> LogoUrl],
    [method |-> "GET", url |-> ApiCardsUrl],
    [method |-> "POST", url |-> ApiScanUrl] }

Statuses == {200, 404}
NoResp == [status |-> 0, ver |-> 0]

\* names of the generations earlier deployments may have left behind
OldNames == {"mobicard-scanner-v0", "mobicard-static"}

(***************************************************************************)
(* Scan submissions.                                                       *)
(***************************************************************************)
ScanUrl == <<"https:", "", "api.mobicard.com", "v1", "scan">>
ScanDatas ==
  { [method |-> "POST", url |-> ScanUrl, headers |-> "token-A", body |-> "card-1"],
    [method |-> "PUT", url |-> ScanUrl, headers |-> "token-A", body |-> "card-2"] }
Clock == 0..MaxClock
Outcomes == {"ok", "status", "error"}
Tags == {"sync-scans", "other-tag"}

VARIABLES
  \* --- service worker and Cache Store
  swState,       \* "parsed", "installing", "installed", "activating", "activated", "redundant"
  life,          \* progress of the install / activate handler's promise chain
  caches,        \* CacheStorage: sequence of [name, entries] in creation order
  handlers,      \* the fetch events in flight, by slot
  netVer,        \* version of the content the network serves now
  skipWaitingCalled,
  \* --- widget (page context)
  online,        \* navigator.onLine
  networkStatus, \* this.networkStatus
  syncManager,   \* 'serviceWorker' in navigator && 'SyncManager' in window
  syncRegistration, \* this.syncRegistration is set
  \* --- platform background sync
  syncTag,       \* registration of 'sync-scans': "none", "pending", "firing", "reregistered"
  stable,        \* connectivity is back for good: every resubmission returns ok
  \* --- Persistent Queue Store
  pending,       \* the 'pending' object store, in key order
  nextId,        \* key generator of the store
  \* --- syncScans
  drain,         \* [pc, scans, i]
  \* --- history
  submitted,     \* submitted[id]: the scanData saveForOffline was given for entry id
  acked,         \* ids whose resubmission returned an ok response
  log,           \* resubmissions of the running (or last) drain, in order
  replay,        \* the last request syncScans issued
  clean,         \* no entry was added since the running drain read the store
  inflight,      \* ids of the entries whose resubmission is issued and not settled
  saveResult,    \* what the last call of saveForOffline returned and added
  earlier        \* a run of syncScans that outlived its sync event

cacheVars == <<swState, life, caches, handlers, netVer, skipWaitingCalled>>
pageVars == <<online, networkStatus, syncManager, syncRegistration>>
queueVars == <<syncTag, stable, pending, nextId, drain>>
histVars == <<submitted, acked, log, replay, clean>>
obsVars == <<inflight, saveResult, earlier>>
vars == <<cacheVars, pageVars, queueVars, histVars, obsVars>>

(***************************************************************************)
(* Helpers on sequences.                                                   *)
(***************************************************************************)
Range(s) == { s[i] : i \in 1..Len(s) }
Ids(s) == { s[i].id : i \in 1..Len(s) }
IdSeq(s) == [ i \in 1..Len(s) |-> s[i].id ]


(***************************************************************************)
(* Cache Store: CacheStorage is an ordered map from cache names to caches; *)
(* a cache maps the URL of a GET request to the response put under it.     *)
(***************************************************************************)
NoEntries == [u \in {} |-> NoResp]

HasCache(cs, name) == \E i \in 1..Len(cs) : cs[i].name = name

\* caches.open(name): the cache is created when it does not exist
CachesOpen(cs, name) ==
  IF HasCache(cs, name) THEN cs
  ELSE Append(cs, [name |-> name, entries |-> NoEntries])

\* caches.keys(): the names in creation order
CachesKeys(cs) == [i \in 1..Len(cs) |-> cs[i].name]

\* caches.delete(name)
CachesDelete(cs, name) == SelectSeq(cs, LAMBDA c : c.name # name)

\* the entries of the cache of that name
EntriesOf(cs, name) ==
  IF HasCache(cs, name)
  THEN cs[CHOOSE i \in 1..Len(cs) : cs[i].name = name].entries
  ELSE NoEntries

PutEntry(entries, url, resp) ==
  [u \in (DOMAIN entries) \cup {url} |-> IF u = url THEN resp ELSE entries[u]]

\* cache.put(request, response) on the cache of that name: an entry of the
\* same key is replaced
CachePut(cs, name, url, resp) ==
  [i \in 1..Len(cs) |->
     IF cs[i].name = name
     THEN [cs[i] EXCEPT !.entries = PutEntry(@, url, resp)]
     ELSE cs[i]]

\* cache.addAll(urls): every URL is fetched first; the entries are written
\* together, and only when no fetch failed
AddAllMut(cs, name, urls, failed, resp) ==
  [i \in 1..Len(cs) |->
     IF cs[i].name = name
     THEN [cs[i] EXCEPT !.entries =
             [u \in (DOMAIN @) \cup (urls \ failed) |->
                IF u \in urls THEN resp ELSE @[u]]]
     ELSE cs[i]]
AddAll(cs, name, urls, failed, resp) ==
  IF failed # {} THEN cs
  ELSE [i \in 1..Len(cs) |->
          IF cs[i].name = name
          THEN [cs[i] EXCEPT !.entries =
                  [u \in (DOMAIN @) \cup urls |->
                     IF u \in urls THEN resp ELSE @[u]]]
          ELSE cs[i]]

\* caches.match(request) (line 40): the caches are searched in creation
\* order and the first entry of the request's URL is the answer; a request
\* whose method is not GET matches nothing
CachesMatchMut(cs, req) == NoResp
CachesMatch(cs, req) ==
  IF req.method # "GET" THEN NoResp
  ELSE IF \E i \in 1..Len(cs) : req.url \in DOMAIN cs[i].entries
       THEN LET first == CHOOSE i \in 1..Len(cs) :
                           /\ req.url \in DOMAIN cs[i].entries
                           /\ \A j \in 1..(i - 1) : req.url \notin DOMAIN cs[j].entries
            IN  cs[first].entries[req.url]
       ELSE NoResp

\* the name of the cache whose entry caches.match returns
MatchGeneration(cs, req) ==
  IF CachesMatch(cs, req) = NoResp THEN "none"
  ELSE cs[CHOOSE i \in 1..Len(cs) :
            /\ req.url \in DOMAIN cs[i].entries
            /\ \A j \in 1..(i - 1) : req.url \notin DOMAIN cs[j].entries].name

\* the responses stored for the request, in any generation
StoredFor(cs, req) ==
  IF req.method # "GET" THEN {}
  ELSE { cs[i].entries[req.url] :
           i \in { j \in 1..Len(cs) : req.url \in DOMAIN cs[j].entries } }

(***************************************************************************)
(* Initial state: the script is parsed, nothing runs, the queue is empty.  *)
(* Earlier deployments may have left generations behind.                   *)
(***************************************************************************)
IdleLife == [pc |-> "idle", keys |-> <<>>, left |-> {}]
IdleHandler ==
  [pc |-> "idle", req |-> [method |-> "GET", url |-> StylesUrl], resp |-> NoResp,
   src |-> "none", net |-> FALSE, put |-> "none", was |-> {}, gen |-> "none"]
IdleDrain == [pc |-> "idle", scans |-> <<>>, i |-> 0]
NoReplay == [id |-> 0, method |-> "", url |-> <<>>, headers |-> "", body |-> ""]
NoSave == [returned |-> "nothing", added |-> 0]

\* what an earlier deployment stored under its own generation
OldEntries ==
  { NoEntries,
    PutEntry(NoEntries, StylesUrl, [status |-> 200, ver |-> 0]),
    PutEntry(PutEntry(NoEntries, StylesUrl, [status |-> 200, ver |-> 0]),
             LogoUrl, [status |-> 200, ver |-> 0]) }

OldGenerations ==
  { <<>> }
  \cup { <<[name |-> n, entries |-> e]>> : n \in OldNames, e \in OldEntries }
  \cup { <<[name |-> "mobicard-scanner-v0", entries |-> e],
           [name |-> "mobicard-static", entries |-> f]>> :
           e \in OldEntries \ {NoEntries}, f \in {NoEntries} }

InitPage ==
  /\ online \in BOOLEAN
  /\ networkStatus = IF online THEN "online" ELSE "offline"
  /\ syncManager \in BOOLEAN
  /\ syncRegistration = FALSE

InitQueue ==
  /\ syncTag = "none"
  /\ stable = FALSE
  /\ pending = <<>>
  /\ nextId = 1
  /\ drain = IdleDrain
  /\ submitted = <<>>
  /\ acked = {}
  /\ log = <<>>
  /\ replay = NoReplay
  /\ clean = TRUE
  /\ inflight = {}
  /\ saveResult = NoSave
  /\ earlier = IdleDrain

InitWorker ==
  /\ swState = "parsed"
  /\ life = IdleLife
  /\ handlers = [s \in 1..MaxFetch |-> IdleHandler]
  /\ netVer = 0
  /\ skipWaitingCalled = FALSE

Init ==
  /\ InitWorker
  /\ caches \in OldGenerations
  /\ InitPage
  /\ InitQueue

\* the same, with the page in one of its states (the worker reads none of
\* the page's fields)
InitCache == Init /\ online /\ syncManager


(***************************************************************************)
(* install (lines 14-20)                                                   *)
(***************************************************************************)
\* the platform dispatches install to the parsed worker
InstallEvent ==
  /\ swState = "parsed"
  /\ swState' = "installing"
  /\ life' = [IdleLife EXCEPT !.pc = "open"]
  /\ UNCHANGED <<caches, handlers, netVer, skipWaitingCalled>>
  /\ UNCHANGED <<pageVars, queueVars, histVars>>
  /\ UNCHANGED obsVars

\* caches.open(CACHE_NAME) (line 16)
InstallOpen ==
  /\ swState = "installing" /\ life.pc = "open"
  /\ caches' = CachesOpen(caches, CACHE_NAME)
  /\ life' = [life EXCEPT !.pc = "addAll"]
  /\ UNCHANGED <<swState, handlers, netVer, skipWaitingCalled>>
  /\ UNCHANGED <<pageVars, queueVars, histVars>>
  /\ UNCHANGED obsVars

\* cache.addAll(ASSETS_TO_CACHE) (line 17); `failed` are the assets whose
\* fetch fails.  A rejection skips line 18 and rejects the promise given to
\* event.waitUntil: the platform discards the worker.
InstallAddAll(failed) ==
  /\ swState = "installing" /\ life.pc = "addAll"
  /\ caches' = AddAll(caches, CACHE_NAME, AssetUrls, failed,
                      [status |-> 200, ver |-> netVer])
  /\ IF failed = {}
     THEN /\ life' = [life EXCEPT !.pc = "skipWaiting"]
          /\ swState' = swState
     ELSE /\ life' = [life EXCEPT !.pc = "rejected"]
          /\ swState' = "redundant"
  /\ UNCHANGED <<handlers, netVer, skipWaitingCalled>>
  /\ UNCHANGED <<pageVars, queueVars, histVars>>
  /\ UNCHANGED obsVars

\* self.skipWaiting() (line 18); the promise of waitUntil is fulfilled and
\* the worker is installed
InstallSkipWaiting ==
  /\ swState = "installing" /\ life.pc = "skipWaiting"
  /\ skipWaitingCalled' = TRUE
  /\ swState' = "installed"
  /\ life' = IdleLife
  /\ UNCHANGED <<caches, handlers, netVer>>
  /\ UNCHANGED <<pageVars, queueVars, histVars>>
  /\ UNCHANGED obsVars

(***************************************************************************)
(* activate (lines 23-35)                                                  *)
(***************************************************************************)
\* cacheName !== CACHE_NAME (line 28)
PurgeMut(cacheName) == cacheName = CACHE_NAME
Purge(cacheName) == cacheName # CACHE_NAME

\* the platform dispatches activate to the installed worker
ActivateEvent ==
  /\ swState = "installed"
  /\ swState' = "activating"
  /\ life' = [IdleLife EXCEPT !.pc = "keys"]
  /\ UNCHANGED <<caches, handlers, netVer, skipWaitingCalled>>
  /\ UNCHANGED <<pageVars, queueVars, histVars>>
  /\ UNCHANGED obsVars

\* caches.keys() is fulfilled (line 25); the map of lines 27-31 starts a
\* caches.delete for every name that is not CACHE_NAME
ActivateKeys ==
  /\ swState = "activating" /\ life.pc = "keys"
  /\ life' = [pc |-> "deleting",
              keys |-> CachesKeys(caches),
              left |-> { n \in Range(CachesKeys(caches)) : Purge(n) }]
  /\ UNCHANGED <<swState, caches, handlers, netVer, skipWaitingCalled>>
  /\ UNCHANGED <<pageVars, queueVars, histVars>>
  /\ UNCHANGED obsVars

\* one of the started caches.delete completes (line 29), in any order
ActivateDelete(name) ==
  /\ swState = "activating" /\ life.pc = "deleting"
  /\ name \in life.left
  /\ caches' = CachesDelete(caches, name)
  /\ life' = [life EXCEPT !.left = @ \ {name}]
  /\ UNCHANGED <<swState, handlers, netVer, skipWaitingCalled>>
  /\ UNCHANGED <<pageVars, queueVars, histVars>>
  /\ UNCHANGED obsVars

\* Promise.all is fulfilled, self.clients.claim() (line 33); the worker is
\* activated and from now on receives the fetch and sync events
ActivateClaim ==
  /\ swState = "activating" /\ life.pc = "deleting"
  /\ life.left = {}
  /\ swState' = "activated"
  /\ life' = [life EXCEPT !.pc = "idle"]
  /\ UNCHANGED <<caches, handlers, netVer, skipWaitingCalled>>
  /\ UNCHANGED <<pageVars, queueVars, histVars>>
  /\ UNCHANGED obsVars

(***************************************************************************)
(* fetch (lines 38-65)                                                     *)
(***************************************************************************)
Busy(h) == h.pc \in {"match", "network"} \/ h.put \in {"open", "put"}

\* response.status === 200 (line 53)
CacheableNever(response) == FALSE
CacheableAlways(response) == TRUE
Cacheable(response) == response.status = 200

\* what the handler does with the network's response (lines 46-62): the
\* response is always the one returned; a write to the cache is started
\* for a status-200 response of a request outside '/api/'
StartsPutAnyUrl(req, response) == Cacheable(response)
StartsPut(req, response) == ~IncludesApi(req.url) /\ Cacheable(response)

\* the platform dispatches fetch for a request of a controlled page; the
\* handler calls caches.match (line 40)
FetchEvent(s, req) ==
  /\ swState = "activated"
  /\ ~Busy(handlers[s])
  /\ \A t \in 1..(s - 1) : Busy(handlers[t])
  /\ handlers' = [handlers EXCEPT ![s] =
       [pc |-> "match", req |-> req, resp |-> NoResp, src |-> "none",
        net |-> FALSE, put |-> "none", was |-> StoredFor(caches, req),
        gen |-> "none"]]
  /\ UNCHANGED <<swState, life, caches, netVer, skipWaitingCalled>>
  /\ UNCHANGED <<pageVars, queueVars, histVars>>
  /\ UNCHANGED obsVars

\* caches.match is fulfilled (lines 41-46): a match is the response;
\* without one the request goes to the network
FetchMatch(s) ==
  /\ handlers[s].pc = "match"
  /\ LET h == handlers[s]
         r == CachesMatch(caches, h.req)
     IN  handlers' = [handlers EXCEPT ![s] =
           IF r # NoResp
           THEN [h EXCEPT !.pc = "done", !.resp = r, !.src = "cache",
                          !.was = StoredFor(caches, h.req),
                          !.gen = MatchGeneration(caches, h.req)]
           ELSE [h EXCEPT !.pc = "network", !.net = TRUE]]
  /\ UNCHANGED <<swState, life, caches, netVer, skipWaitingCalled>>
  /\ UNCHANGED <<pageVars, queueVars, histVars>>
  /\ UNCHANGED obsVars

\* where the handler is once the network has answered: `return response`
\* (line 61) runs in the same callback; the chain of lines 55-58 is neither
\* returned nor awaited
AfterResponseMut(req, response) ==
  IF StartsPut(req, response) THEN "network" ELSE "done"
AfterResponse(req, response) == "done"

\* the network answers with a response of that status (lines 46-62)
FetchResponse(s, status) ==
  /\ handlers[s].pc = "network"
  /\ LET h == handlers[s]
         response == [status |-> status, ver |-> netVer]
     IN  handlers' = [handlers EXCEPT ![s] =
           [h EXCEPT !.pc = AfterResponse(h.req, response),
                     !.resp = response, !.src = "network",
                     !.put = IF StartsPut(h.req, response) THEN "open" ELSE "none"]]
  /\ UNCHANGED <<swState, life, caches, netVer, skipWaitingCalled>>
  /\ UNCHANGED <<pageVars, queueVars, histVars>>
  /\ UNCHANGED obsVars

\* what becomes of the event when fetch(event.request) rejects: the chain
\* of lines 40-63 has no catch, so the promise given to respondWith is
\* rejected
OnNetworkErrorMut(h) ==
  [h EXCEPT !.pc = "done", !.src = "fallback", !.resp = [status |-> 503, ver |-> 0]]
OnNetworkError(h) == [h EXCEPT !.pc = "failed"]

\* the network request fails
FetchFailure(s) ==
  /\ handlers[s].pc = "network"
  /\ handlers' = [handlers EXCEPT ![s] = OnNetworkError(@)]
  /\ UNCHANGED <<swState, life, caches, netVer, skipWaitingCalled>>
  /\ UNCHANGED <<pageVars, queueVars, histVars>>
  /\ UNCHANGED obsVars

\* caches.open(CACHE_NAME) of the detached write is fulfilled (line 55)
PutOpen(s) ==
  /\ handlers[s].put = "open"
  /\ caches' = CachesOpen(caches, CACHE_NAME)
  /\ handlers' = [handlers EXCEPT ![s] = [@ EXCEPT !.put = "put"]]
  /\ UNCHANGED <<swState, life, netVer, skipWaitingCalled>>
  /\ UNCHANGED <<pageVars, queueVars, histVars>>
  /\ UNCHANGED obsVars

\* caches.open(CACHE_NAME) of the detached write is rejected (line 55):
\* line 56 does not run, and nothing observes the rejection
PutOpenFails(s) ==
  /\ handlers[s].put = "open"
  /\ handlers' = [handlers EXCEPT ![s] = [@ EXCEPT !.put = "failed"]]
  /\ UNCHANGED <<swState, life, caches, netVer, skipWaitingCalled>>
  /\ UNCHANGED <<pageVars, queueVars, histVars>>
  /\ UNCHANGED obsVars

\* cache.put(event.request, responseToCache) (line 57): it rejects for a
\* request whose method is not GET, and may fail in the store (quota);
\* nothing observes the rejection
PutWrite(s, stored) ==
  /\ handlers[s].put = "put"
  /\ LET h == handlers[s]
         ok == stored /\ h.req.method = "GET"
     IN  /\ caches' = IF ok THEN CachePut(caches, CACHE_NAME, h.req.url, h.resp)
                      ELSE caches
         /\ handlers' = [handlers EXCEPT ![s] =
              [h EXCEPT !.put = IF ok THEN "stored" ELSE "failed"]]
  /\ UNCHANGED <<swState, life, netVer, skipWaitingCalled>>
  /\ UNCHANGED <<pageVars, queueVars, histVars>>
  /\ UNCHANGED obsVars

\* the server deploys new content
NetDeploy ==
  /\ netVer < MaxVer
  /\ netVer' = netVer + 1
  /\ UNCHANGED <<swState, life, caches, handlers, skipWaitingCalled>>
  /\ UNCHANGED <<pageVars, queueVars, histVars>>
  /\ UNCHANGED obsVars

\* what a stop of the worker leaves of a fetch event: an unanswered event
\* stays unanswered, a write that has not landed never lands
Stopped(h) ==
  [h EXCEPT !.pc = IF @ \in {"match", "network"} THEN "killed" ELSE @,
            !.put = IF @ \in {"open", "put"} THEN "killed" ELSE @]

\* the platform stops the activated worker while fetch events or detached
\* writes are in flight (the writes are not covered by a waitUntil)
StopWorker ==
  /\ swState = "activated"
  /\ \E s \in 1..MaxFetch : Busy(handlers[s])
  /\ handlers' = [s \in 1..MaxFetch |-> Stopped(handlers[s])]
  /\ UNCHANGED <<swState, life, caches, netVer, skipWaitingCalled>>
  /\ UNCHANGED <<pageVars, queueVars, histVars>>
  /\ UNCHANGED obsVars

NextCache ==
  \/ InstallEvent
  \/ InstallOpen
  \/ \E failed \in SUBSET AssetUrls : InstallAddAll(failed)
  \/ InstallSkipWaiting
  \/ ActivateEvent
  \/ ActivateKeys
  \/ \E name \in OldNames \cup {CACHE_NAME} : ActivateDelete(name)
  \/ ActivateClaim
  \/ \E s \in 1..MaxFetch, req \in Requests : FetchEvent(s, req)
  \/ \E s \in 1..MaxFetch : FetchMatch(s)
  \/ \E s \in 1..MaxFetch, status \in Statuses : FetchResponse(s, status)
  \/ \E s \in 1..MaxFetch : FetchFailure(s)
  \/ \E s \in 1..MaxFetch : PutOpen(s)
  \/ \E s \in 1..MaxFetch : PutOpenFails(s)
  \/ \E s \in 1..MaxFetch, stored \in BOOLEAN : PutWrite(s, stored)
  \/ NetDeploy
  \/ StopWorker

\* the worker and the Cache Store, with the page and the queue at rest
SpecCache == InitCache /\ [][NextCache]_vars


(***************************************************************************)
(* Persistent Queue Store (openScansDatabase / openDatabase and the db     *)
(* object are not part of the source file; they follow the store of the    *)
(* specification: add assigns a unique id and appends, getAll returns the  *)
(* entries in order, delete removes by id and is idempotent).              *)
(***************************************************************************)
DbAdd(store, id, value) == Append(store, [value EXCEPT !.id = id])
DbGetAll(store) == store
DbDelete(store, id) == SelectSeq(store, LAMBDA e : e.id # id)

(***************************************************************************)
(* Widget (lines 179-286)                                                  *)
(***************************************************************************)
\* registration.sync.register('sync-scans') as the platform keeps it: one
\* registration per tag; a registration made while its event is being
\* handled makes the platform dispatch the event once more afterwards
Register(tag) ==
  CASE tag = "none" -> "pending"
    [] tag = "firing" -> "reregistered"
    [] OTHER -> tag

\* navigator.serviceWorker.ready is fulfilled (lines 226-230)
Ready ==
  /\ swState = "activated"
  /\ syncManager
  /\ ~syncRegistration
  /\ syncRegistration' = TRUE
  /\ UNCHANGED <<online, networkStatus, syncManager>>
  /\ UNCHANGED <<cacheVars, queueVars, histVars>>
  /\ UNCHANGED obsVars

\* whether handleNetworkChange registers the sync (lines 236-240)
RegistersOnChange(status, registration) == status = "online" /\ registration

\* the platform changes navigator.onLine and dispatches online / offline;
\* the listener of line 194 / 195 calls handleNetworkChange (lines 233-242)
HandleNetworkChange(status) ==
  /\ status = IF online THEN "offline" ELSE "online"
  /\ status = "offline" => ~stable
  /\ online' = (status = "online")
  /\ networkStatus' = status
  /\ syncTag' = IF RegistersOnChange(status, syncRegistration)
                THEN Register(syncTag) ELSE syncTag
  /\ UNCHANGED <<syncManager, syncRegistration>>
  /\ UNCHANGED <<stable, pending, nextId, drain>>
  /\ UNCHANGED <<cacheVars, histVars>>
  /\ UNCHANGED obsVars

\* the record saveForOffline stores (lines 271-276); the store sets id
PendingEntry(scanData, now) ==
  [id |-> 0, url |-> scanData.url, headers |-> scanData.headers,
   body |-> scanData.body, timestamp |-> now]

\* saveForOffline(scanData) (lines 268-286), Date.now() returning `now`:
\* the entry is added and true returned only under !navigator.onLine
\* (line 269); otherwise the call returns false (line 285)
SaveForOffline(scanData, now) ==
  /\ nextId <= MaxAdds
  /\ IF ~online
     THEN /\ pending' = DbAdd(pending, nextId, PendingEntry(scanData, now))
          /\ nextId' = nextId + 1
          /\ syncTag' = IF syncRegistration THEN Register(syncTag) ELSE syncTag
          /\ submitted' = Append(submitted, scanData)
          /\ clean' = FALSE
          /\ saveResult' = [returned |-> "true", added |-> 1]
     ELSE /\ UNCHANGED <<pending, nextId, syncTag, submitted, clean>>
          /\ saveResult' = [returned |-> "false", added |-> 0]
  /\ UNCHANGED <<stable, drain, acked, log, replay, inflight, earlier>>
  /\ UNCHANGED <<cacheVars, pageVars>>

(***************************************************************************)
(* sync (lines 68-72) and syncScans (lines 74-93)                          *)
(***************************************************************************)
Running(d) == d.pc \in {"open", "getAll", "loop", "await", "delete"}

\* event.tag === 'sync-scans' (line 69)
StartsDrainMut(tag) == TRUE
StartsDrain(tag) == tag = "sync-scans"

\* the platform dispatches sync: for 'sync-scans' when the tag is
\* registered and the device is online, one event at a time; for a tag of
\* other code of the origin at any time
SyncEvent(tag) ==
  /\ swState = "activated"
  /\ online
  /\ ~Running(drain)
  /\ tag = "sync-scans" => syncTag = "pending"
  /\ syncTag' = IF tag = "sync-scans" THEN "firing" ELSE syncTag
  /\ IF StartsDrain(tag)
     THEN /\ drain' = [pc |-> "open", scans |-> <<>>, i |-> 0]
          /\ log' = <<>>
     ELSE UNCHANGED <<drain, log>>
  /\ UNCHANGED <<stable, pending, nextId>>
  /\ UNCHANGED <<submitted, acked, replay, clean>>
  /\ UNCHANGED <<cacheVars, pageVars>>
  /\ UNCHANGED obsVars

\* await openScansDatabase() (line 75)
DrainOpen ==
  /\ drain.pc = "open"
  /\ drain' = [drain EXCEPT !.pc = "getAll"]
  /\ UNCHANGED <<syncTag, stable, pending, nextId>>
  /\ UNCHANGED <<cacheVars, pageVars, histVars>>
  /\ UNCHANGED obsVars

\* await db.getAll('pending') (line 76)
DrainGetAll ==
  /\ drain.pc = "getAll"
  /\ drain' = [pc |-> "loop", scans |-> DbGetAll(pending), i |-> 1]
  /\ clean' = TRUE
  /\ UNCHANGED <<syncTag, stable, pending, nextId>>
  /\ UNCHANGED <<submitted, acked, log, replay>>
  /\ UNCHANGED <<cacheVars, pageVars>>
  /\ UNCHANGED obsVars

\* the request of lines 80-84 for a stored entry
ReplayRequest(scan) ==
  [id |-> scan.id, method |-> "POST", url |-> scan.url,
   headers |-> scan.headers, body |-> scan.body]

\* `await fetch(...)` (line 80): the loop is suspended until the request
\* settles
AfterFetchMut(d) == [d EXCEPT !.i = @ + 1]
AfterFetch(d) == [d EXCEPT !.pc = "await"]

\* fetch(scan.url, {...}) is called for the next entry (line 80)
DrainFetch ==
  /\ drain.pc = "loop"
  /\ drain.i <= Len(drain.scans)
  /\ drain' = AfterFetch(drain)
  /\ replay' = ReplayRequest(drain.scans[drain.i])
  /\ inflight' = inflight \cup {drain.scans[drain.i].id}
  /\ UNCHANGED <<syncTag, stable, pending, nextId>>
  /\ UNCHANGED <<submitted, acked, log, clean, saveResult, earlier>>
  /\ UNCHANGED <<cacheVars, pageVars>>

\* what the network can answer now: nothing while offline, ok once the
\* connectivity is back for good
NetOutcomes ==
  IF ~online THEN {"error"} ELSE IF stable THEN {"ok"} ELSE Outcomes

\* response.ok (line 86); a network error throws and skips the test
ShouldDeleteMut(outcome) == outcome # "error"
ShouldDelete(outcome) == outcome = "ok"

\* where the loop goes after entry i of n when the entry is not deleted:
\* the catch of line 89 is inside the loop
AfterFailureMut(i, n) == n + 1
AfterFailure(i, n) == i + 1

\* where the loop goes after entry i of n when db.delete rejects: the
\* rejection is thrown at the await of line 87, inside the try of line 79
AfterDeleteFailureMut(i, n) == n + 1
AfterDeleteFailure(i, n) == i + 1

\* where the loop goes after entry i is deleted (line 87, then line 78)
AfterSuccessMut(i) == i
AfterSuccess(i) == i + 1

\* the fetch of line 80 settles: ok response, non-ok response, or error
DrainResponse(outcome) ==
  /\ drain.pc = "await"
  /\ outcome \in NetOutcomes
  /\ LET scan == drain.scans[drain.i]
     IN  /\ log' = Append(log, [id |-> scan.id, outcome |-> outcome, del |-> "none"])
         /\ acked' = IF outcome = "ok" THEN acked \cup {scan.id} ELSE acked
         /\ drain' = IF ShouldDelete(outcome)
                     THEN [drain EXCEPT !.pc = "delete"]
                     ELSE [drain EXCEPT !.pc = "loop",
                             !.i = AfterFailure(drain.i, Len(drain.scans))]
         /\ inflight' = inflight \ {scan.id}
  /\ UNCHANGED <<syncTag, stable, pending, nextId>>
  /\ UNCHANGED <<submitted, replay, clean, saveResult, earlier>>
  /\ UNCHANGED <<cacheVars, pageVars>>

\* await db.delete('pending', scan.id) settles (line 87); a rejection is
\* caught at line 89
DrainDelete(deleted) ==
  /\ drain.pc = "delete"
  /\ LET scan == drain.scans[drain.i]
     IN  /\ pending' = IF deleted THEN DbDelete(pending, scan.id) ELSE pending
         /\ log' = [log EXCEPT ![Len(log)].del = IF deleted THEN "done" ELSE "failed"]
         /\ drain' = [drain EXCEPT !.pc = "loop",
                 !.i = IF deleted THEN AfterSuccess(@)
                       ELSE AfterDeleteFailure(@, Len(drain.scans))]
  /\ UNCHANGED <<syncTag, stable, nextId>>
  /\ UNCHANGED <<submitted, acked, replay, clean>>
  /\ UNCHANGED <<cacheVars, pageVars>>
  /\ UNCHANGED obsVars

\* the loop is over and syncScans returns: the promise given to waitUntil
\* is fulfilled and the platform drops the registration, or keeps it when
\* it was registered again meanwhile
DrainEnd ==
  /\ drain.pc = "loop"
  /\ drain.i > Len(drain.scans)
  /\ drain' = [drain EXCEPT !.pc = "done"]
  /\ syncTag' = IF syncTag = "reregistered" THEN "pending" ELSE "none"
  /\ UNCHANGED <<stable, pending, nextId>>
  /\ UNCHANGED <<cacheVars, pageVars, histVars>>
  /\ UNCHANGED obsVars

\* the process is terminated mid-drain; the store is durable, and the
\* platform keeps the registration of an event that did not complete
StopDrain ==
  /\ Running(drain)
  /\ drain' = [drain EXCEPT !.pc = "idle"]
  /\ syncTag' = "pending"
  /\ inflight' = {}
  /\ UNCHANGED <<stable, pending, nextId, saveResult, earlier>>
  /\ UNCHANGED <<cacheVars, pageVars, histVars>>

\* connectivity is back for good
Stabilise ==
  /\ online
  /\ ~stable
  /\ stable' = TRUE
  /\ UNCHANGED <<syncTag, pending, nextId, drain>>
  /\ UNCHANGED <<cacheVars, pageVars, histVars>>
  /\ UNCHANGED obsVars

\* the worker is activated, the current generation is the only one
InitSync ==
  /\ swState = "activated"
  /\ life = IdleLife
  /\ caches = AddAll(CachesOpen(<<>>, CACHE_NAME), CACHE_NAME, AssetUrls, {},
                     [status |-> 200, ver |-> 0])
  /\ handlers = [s \in 1..MaxFetch |-> IdleHandler]
  /\ netVer = 0
  /\ skipWaitingCalled = TRUE
  /\ InitPage
  /\ InitQueue

NextSync ==
  \/ Ready
  \/ \E status \in {"online", "offline"} : HandleNetworkChange(status)
  \/ \E scanData \in ScanDatas, now \in Clock : SaveForOffline(scanData, now)
  \/ \E tag \in Tags : SyncEvent(tag)
  \/ DrainOpen
  \/ DrainGetAll
  \/ DrainFetch
  \/ \E outcome \in Outcomes : DrainResponse(outcome)
  \/ \E deleted \in BOOLEAN : DrainDelete(deleted)
  \/ DrainEnd
  \/ StopDrain
  \/ Stabilise

\* the widget, the queue and the drain, with the worker activated
SpecSync == InitSync /\ [][NextSync]_vars


\* the whole program
Next == NextCache \/ NextSync
Spec == Init /\ [][Next]_vars

\* the worker started on a Cache Store whose current generation already
\* holds entries, of any URL, that the handlers of this file did not write
\* (the store is shared with the page and outlives every deployment)
InitAnyCache ==
  /\ InitWorker
  /\ caches \in { old \o <<[name |-> CACHE_NAME,
                           entries |-> [u \in D |-> [status |-> 200, ver |-> 0]]]>> :
                    old \in OldGenerations, D \in SUBSET FetchUrls }
  /\ InitPage /\ online /\ syncManager
  /\ InitQueue

\* the Cache Store is shared by every deployment of the origin: while this
\* worker is the active one, the worker of the next deployment (the same
\* script with CACHE_NAME bumped and its own asset list) runs its install
\* handler and fills its own generation
NewerName == "mobicard-scanner-v2"
NewerAssets == AssetUrls \cup {LogoUrl}
NewerInstall ==
  /\ swState = "activated"
  /\ ~HasCache(caches, NewerName)
  /\ caches' = AddAll(CachesOpen(caches, NewerName), NewerName, NewerAssets, {},
                      [status |-> 200, ver |-> netVer])
  /\ UNCHANGED <<swState, life, handlers, netVer, skipWaitingCalled>>
  /\ UNCHANGED <<pageVars, queueVars, histVars>>
  /\ UNCHANGED obsVars

NextAnyCache == NextCache \/ NewerInstall
SpecAnyCache == InitAnyCache /\ [][NextAnyCache]_vars

(***************************************************************************)
(* A sync event that outlives the platform's time limit.  syncScans has    *)
(* no lock and no state outside its locals: the run of an event that the   *)
(* platform gave up on goes on while the event of the retry starts the     *)
(* next run.                                                               *)
(***************************************************************************)
\* the time limit of event.waitUntil(syncScans()) (line 70) expires while
\* a request is pending: the platform counts the event as failed and keeps
\* the registration for a retry; the worker and syncScans keep running
SyncTimeout ==
  /\ drain.pc = "await"
  /\ ~Running(earlier)
  /\ earlier' = drain
  /\ drain' = [drain EXCEPT !.pc = "idle"]
  /\ syncTag' = "pending"
  /\ inflight' = {}
  /\ UNCHANGED <<stable, pending, nextId, saveResult>>
  /\ UNCHANGED <<cacheVars, pageVars, histVars>>

\* the earlier run calls fetch for its next entry (line 80)
EarlierFetch ==
  /\ earlier.pc = "loop"
  /\ earlier.i <= Len(earlier.scans)
  /\ earlier' = AfterFetch(earlier)
  /\ replay' = ReplayRequest(earlier.scans[earlier.i])
  /\ UNCHANGED <<submitted, acked, log, clean, inflight, saveResult>>
  /\ UNCHANGED <<cacheVars, pageVars, queueVars>>

\* the fetch of the earlier run settles (lines 80-91)
EarlierResponse(outcome) ==
  /\ earlier.pc = "await"
  /\ outcome \in NetOutcomes
  /\ acked' = IF outcome = "ok" THEN acked \cup {earlier.scans[earlier.i].id}
              ELSE acked
  /\ earlier' = IF ShouldDelete(outcome)
                 THEN [earlier EXCEPT !.pc = "delete"]
                 ELSE [earlier EXCEPT !.pc = "loop",
                         !.i = AfterFailure(earlier.i, Len(earlier.scans))]
  /\ UNCHANGED <<submitted, log, replay, clean, inflight, saveResult>>
  /\ UNCHANGED <<cacheVars, pageVars, queueVars>>

\* db.delete of the earlier run settles (line 87)
EarlierDelete(deleted) ==
  /\ earlier.pc = "delete"
  /\ pending' = IF deleted THEN DbDelete(pending, earlier.scans[earlier.i].id)
                ELSE pending
  /\ earlier' = [earlier EXCEPT !.pc = "loop",
                   !.i = IF deleted THEN AfterSuccess(@)
                         ELSE AfterDeleteFailure(@, Len(earlier.scans))]
  /\ UNCHANGED <<syncTag, stable, nextId, drain>>
  /\ UNCHANGED <<inflight, saveResult>>
  /\ UNCHANGED <<cacheVars, pageVars, histVars>>

\* the loop of the earlier run is over; its event is over already
EarlierEnd ==
  /\ earlier.pc = "loop"
  /\ earlier.i > Len(earlier.scans)
  /\ earlier' = [earlier EXCEPT !.pc = "done"]
  /\ UNCHANGED <<inflight, saveResult>>
  /\ UNCHANGED <<cacheVars, pageVars, queueVars, histVars>>

NextOverlap ==
  \/ NextSync
  \/ SyncTimeout
  \/ EarlierFetch
  \/ \E outcome \in Outcomes : EarlierResponse(outcome)
  \/ \E deleted \in BOOLEAN : EarlierDelete(deleted)
  \/ EarlierEnd
SpecOverlap == InitSync /\ [][NextOverlap]_vars

\* the widget and the drain without faults of the store and without stops
\* of the worker; every step of the platform and of the event loop that
\* can be taken is eventually taken
NextLive ==
  \/ Ready
  \/ \E status \in {"online", "offline"} : HandleNetworkChange(status)
  \/ \E scanData \in ScanDatas, now \in Clock : SaveForOffline(scanData, now)
  \/ SyncEvent("sync-scans")
  \/ DrainOpen
  \/ DrainGetAll
  \/ DrainFetch
  \/ \E outcome \in Outcomes : DrainResponse(outcome)
  \/ DrainDelete(TRUE)
  \/ DrainEnd
  \/ Stabilise
FairSync ==
  /\ InitSync
  /\ [][NextLive]_vars
  /\ WF_vars(Ready)
  /\ WF_vars(SyncEvent("sync-scans"))
  /\ WF_vars(DrainOpen)
  /\ WF_vars(DrainGetAll)
  /\ WF_vars(DrainFetch)
  /\ WF_vars(\E outcome \in Outcomes : DrainResponse(outcome))
  /\ WF_vars(DrainDelete(TRUE))
  /\ WF_vars(DrainEnd)

(***************************************************************************)
(* Properties.                                                             *)
(***************************************************************************)
Added == 1..(nextId - 1)
LogIds(P(_)) == { log[k].id : k \in { j \in 1..Len(log) : P(log[j]) } }
OkIds == LogIds(LAMBDA a : a.outcome = "ok")
RemovedIds == LogIds(LAMBDA a : a.outcome = "ok" /\ a.del = "done")
CurrentEntries == EntriesOf(caches, CACHE_NAME)

\* C1: an entry that was added and is no longer in the pending store has had
\* a resubmission answered with an ok response; every other entry (failed,
\* answered with a non-ok status, not attempted, added during a drain, or
\* left by a drain that was stopped) is still in the store.
C1_RemovedOnlyAfterOk ==
  \A id \in Added : id \notin Ids(pending) => id \in acked

C1_Witness ==
  /\ \E id \in Added : id \notin Ids(pending) /\ id \in acked
  /\ \E id \in Ids(pending) : id \notin Ids(drain.scans) /\ Running(drain)

\* C2 as stated: when a drain that no add overlapped has ended, every entry
\* it read was attempted once, in enqueue order, and the store holds exactly
\* the entries whose resubmission did not return ok, in their order.
C2_StoreIsNotOk ==
  (drain.pc = "done" /\ clean) =>
    /\ IdSeq(log) = IdSeq(drain.scans)
    /\ pending = SelectSeq(drain.scans, LAMBDA e : e.id \notin OkIds)

\* C2 amended: ... and the store holds exactly the entries whose
\* resubmission did not return ok or whose removal failed, in their order.
C2_StoreIsNotRemoved ==
  (drain.pc = "done" /\ clean) =>
    /\ IdSeq(log) = IdSeq(drain.scans)
    /\ pending = SelectSeq(drain.scans, LAMBDA e : e.id \notin RemovedIds)

C2_Witness ==
  /\ drain.pc = "done" /\ clean
  /\ Len(drain.scans) = 2
  /\ log[1].outcome # "ok" /\ log[2].outcome = "ok"
  /\ pending = <<drain.scans[1]>>

\* C3: once connectivity is back for good, every entry that is in the
\* pending store is eventually absent from it.
C3_EventuallyDelivered ==
  \A id \in 1..MaxAdds : (stable /\ id \in Ids(pending)) ~> (id \notin Ids(pending))

\* C4: no generation of the Cache Store ever holds an entry whose URL
\* contains '/api/'.
C4_NoApiInCache ==
  \A i \in 1..Len(caches) : \A u \in DOMAIN caches[i].entries :
    \A k \in 2..(Len(u) - 1) : u[k] # "api"

C4_Witness ==
  \E s \in 1..MaxFetch :
    /\ handlers[s].pc = "done" /\ handlers[s].src = "network"
    /\ handlers[s].req = [method |-> "GET", url |-> ApiCardsUrl]
    /\ handlers[s].resp.status = 200

\* C5: a fetch event of a request whose URL contains '/api/' is answered by
\* the network's response, after a network request, never from the cache.
C5_ApiNeverFromCache ==
  \A s \in 1..MaxFetch :
    (handlers[s].pc = "done" /\ IncludesApi(handlers[s].req.url)) =>
      (handlers[s].src = "network" /\ handlers[s].net)

\* C6: a fetch of a request for which a response is stored when the event is
\* dispatched is answered with a stored response, without a network request.
C6_CacheFirst ==
  \A s \in 1..MaxFetch :
    (handlers[s].was # {} /\ handlers[s].pc \notin {"idle", "match", "killed"}) =>
      /\ handlers[s].pc = "done" /\ handlers[s].src = "cache"
      /\ ~handlers[s].net
      /\ handlers[s].resp \in handlers[s].was

C6_Witness ==
  \E s \in 1..MaxFetch :
    /\ handlers[s].pc = "done" /\ handlers[s].src = "cache"
    /\ handlers[s].req.url = LogoUrl
    /\ handlers[s].resp.ver < netVer

\* the fetch event of slot s missed the cache and was answered by a
\* status-200 response of the network to a request outside '/api/'
Miss200(s) ==
  /\ handlers[s].pc = "done" /\ handlers[s].src = "network"
  /\ ~IncludesApi(handlers[s].req.url)
  /\ handlers[s].resp.status = 200

\* C7 as stated, in the form a finite run decides: once the work started for
\* such a fetch event has settled, the current generation holds an entry for
\* the request.
C7_StoredAfterMiss ==
  \A s \in 1..MaxFetch :
    (Miss200(s) /\ handlers[s].put \notin {"open", "put"}) =>
      handlers[s].req.url \in DOMAIN CurrentEntries

\* C7 amended: the response is returned and a write to the current
\* generation is started; the entry exists once that write has completed
\* successfully, which it never does for a request that is not a GET.
C7_StoredWhenWriteLands ==
  \A s \in 1..MaxFetch :
    Miss200(s) =>
      /\ handlers[s].net
      /\ handlers[s].put \in {"open", "put", "stored", "failed", "killed"}
      /\ handlers[s].put = "stored" =>
           /\ handlers[s].req.method = "GET"
           /\ handlers[s].req.url \in DOMAIN CurrentEntries
           /\ CurrentEntries[handlers[s].req.url].status = 200

C7_Witness ==
  \E s \in 1..MaxFetch :
    /\ Miss200(s) /\ handlers[s].put = "stored"
    /\ CurrentEntries[LogoUrl] = handlers[s].resp

\* C8: once the activate handler's work has completed, the generation named
\* CACHE_NAME is the only one.
C8_OnlyCurrentRemains ==
  swState = "activated" => CachesKeys(caches) = <<CACHE_NAME>>

C8_Witness ==
  /\ swState = "activated"
  /\ Len(life.keys) = 3

\* C9: an install in which the fetch of an asset failed never calls
\* skipWaiting, stores none of the assets and leaves a worker that serves no
\* request; a worker past install has every manifest asset stored.
C9_AtomicBootstrap ==
  /\ swState = "redundant" =>
       /\ ~skipWaitingCalled
       /\ (DOMAIN CurrentEntries) \cap AssetUrls = {}
  /\ swState \in {"installed", "activating", "activated"} =>
       /\ skipWaitingCalled
       /\ AssetUrls \subseteq DOMAIN CurrentEntries
  /\ swState # "activated" => \A s \in 1..MaxFetch : handlers[s].pc = "idle"

C9_Witness ==
  /\ swState = "redundant"
  /\ life.pc = "rejected"
  /\ HasCache(caches, CACHE_NAME)

\* C10: the request syncScans issues for an entry has the method, url,
\* headers and body of the submission saveForOffline was given.
C10_ReplayIsOriginal ==
  replay.id # 0 =>
    /\ replay.method = submitted[replay.id].method
    /\ replay.url = submitted[replay.id].url
    /\ replay.headers = submitted[replay.id].headers
    /\ replay.body = submitted[replay.id].body

\* C11: every failed submission handed to saveForOffline, while offline or
\* after a transient failure while navigator.onLine is true, adds exactly
\* one entry to the pending store and returns true
C11_SaveAlwaysEnqueues ==
  saveResult # NoSave => saveResult = [returned |-> "true", added |-> 1]

\* C12: the fetch handler starts a write to the cache only for a network
\* response of status exactly 200: a response of another status is handed
\* to the page as the network gave it, starts no write, and no entry of
\* the current generation holds a response of another status
C12_Only200Written ==
  /\ \A s \in 1..MaxFetch :
       LET h == handlers[s]
       IN  h.src = "network" /\ h.resp.status # 200 =>
             /\ h.pc = "done"
             /\ h.put = "none"
             /\ h.resp.status \in Statuses
             /\ h.resp.ver <= netVer
  /\ \A u \in DOMAIN CurrentEntries : CurrentEntries[u].status = 200

C12_Witness ==
  \E s \in 1..MaxFetch :
    LET h == handlers[s]
    IN  /\ h.pc = "done"
        /\ h.src = "network"
        /\ h.resp.status = 404
        /\ h.req = [method |-> "GET", url |-> LogoUrl]
        /\ h.put = "none"
        /\ LogoUrl \notin DOMAIN CurrentEntries

\* C13: a response the fetch handler serves from the cache comes from the
\* generation named CACHE_NAME, never from an entry that only another
\* generation holds
C13_OnlyCurrentServed ==
  \A s \in 1..MaxFetch :
    handlers[s].src = "cache" => handlers[s].gen = CACHE_NAME

\* C14: a stored response is never mutated or replaced while its
\* generation exists: no step of a fetch, of a detached write or of an
\* install changes the response an existing generation holds for a URL
C14_NeverReplaced ==
  [][\A i \in 1..Len(caches) : \A j \in 1..Len(caches') :
       caches[i].name = caches'[j].name =>
         \A u \in (DOMAIN caches[i].entries) \cap (DOMAIN caches'[j].entries) :
           caches'[j].entries[u] = caches[i].entries[u]]_vars

\* C15: the write to the cache is fire-and-forget: whenever the handler
\* has started one, whether it is still opening the cache or writing, has
\* stored the entry, has failed or was cut short, the page already has the
\* response, and it is the network's status-200 response
C15_FireAndForget ==
  \A s \in 1..MaxFetch :
    LET h == handlers[s]
    IN  h.put \in {"open", "put", "stored", "failed", "killed"} =>
          /\ h.pc = "done"
          /\ h.src = "network"
          /\ h.resp.status = 200
          /\ h.resp.ver <= netVer

C15_Witness ==
  \E s \in 1..MaxFetch :
    LET h == handlers[s]
    IN  /\ h.pc = "done"
        /\ h.src = "network"
        /\ h.req = [method |-> "GET", url |-> LogoUrl]
        /\ h.put = "failed"
        /\ LogoUrl \notin DOMAIN CurrentEntries

\* C16: on a miss whose network request fails the handler propagates the
\* failure: the event ends rejected without a response, no write to the
\* cache is started and the pending queue is as it was; every response
\* the handler does give comes from the cache or from the network
C16_FailurePropagates ==
  /\ [](\A s \in 1..MaxFetch :
         LET h == handlers[s]
         IN  /\ h.pc = "failed" =>
                  /\ h.net
                  /\ h.resp = NoResp
                  /\ h.src = "none"
                  /\ h.put = "none"
             /\ h.pc = "done" => h.src \in {"cache", "network"})
  /\ [][\A s \in 1..MaxFetch :
          handlers[s].pc = "network" /\ handlers'[s].pc = "failed" =>
            UNCHANGED <<caches, pending, nextId, syncTag>>]_vars

C16_Witness ==
  \E s \in 1..MaxFetch :
    LET h == handlers[s]
    IN  /\ h.pc = "failed"
        /\ h.req = [method |-> "GET", url |-> LogoUrl]
        /\ LogoUrl \notin DOMAIN CurrentEntries
        /\ pending = <<>>

\* C17: removal is the commit point: an entry whose resubmission returned
\* ok but whose db.delete failed stays in the pending store, the drain
\* goes on with the entries after it and attempts every entry it read,
\* and a later drain reads the entry again and resubmits it
C17_DeleteFailureKeepsEntry ==
  /\ \A k \in 1..Len(log) : log[k].del = "failed" =>
        /\ log[k].id \in Ids(pending)
        /\ drain.pc # "idle" => drain.i > k
  /\ drain.pc = "done" => IdSeq(log) = IdSeq(drain.scans)
  /\ drain.pc \in {"loop", "await", "delete", "done"} =>
        (acked \cap Ids(pending)) \subseteq Ids(drain.scans)

C17_Witness ==
  /\ Len(log) = 2
  /\ log[1].outcome = "ok" /\ log[1].del = "failed"
  /\ log[1].id \in Ids(pending)
  /\ log[2].id # log[1].id
  /\ drain.pc = "done"

\* C18: within a drain the resubmissions are strictly sequential: at most
\* one request is in flight, and while one is in flight every earlier
\* entry of the drain has settled and, where its response was ok, its
\* db.delete has completed; none is in flight during a db.delete
C18_Sequential ==
  /\ Cardinality(inflight) <= 1
  /\ inflight # {} =>
        /\ drain.pc = "await"
        /\ inflight = {drain.scans[drain.i].id}
        /\ Len(log) = drain.i - 1
        /\ \A k \in 1..Len(log) :
              log[k].outcome = "ok" => log[k].del \in {"done", "failed"}
  /\ drain.pc = "delete" => inflight = {}

C18_Witness ==
  /\ drain.pc = "await"
  /\ drain.i = 2
  /\ Len(log) = 1
  /\ log[1].outcome = "ok" /\ log[1].del = "done"
  /\ inflight = {drain.scans[2].id}

\* C19: an entry that was resubmitted with an ok response and removed is
\* not resubmitted again: whenever a run of syncScans issues a request,
\* the entry of the request is still in the pending store
C19_NoResubmitAfterRemoval ==
  [][/\ drain.pc = "loop" /\ drain'.pc = "await" =>
          drain.scans[drain.i].id \in Ids(pending)
     /\ earlier.pc = "loop" /\ earlier'.pc = "await" =>
          earlier.scans[earlier.i].id \in Ids(pending)]_vars

\* C20: a sync event of another tag starts no drain, issues no request
\* and leaves the pending store as it is; handleNetworkChange('offline')
\* registers no sync, and handleNetworkChange('online') registers
\* 'sync-scans' only when the widget holds a sync registration
C20_OnlyOwnTagAndOnline ==
  [][/\ SyncEvent("other-tag") =>
          UNCHANGED <<drain, log, replay, inflight, pending, acked, syncTag>>
     /\ HandleNetworkChange("offline") => syncTag' = syncTag
     /\ HandleNetworkChange("online") /\ ~syncRegistration => syncTag' = syncTag
     /\ HandleNetworkChange("online") /\ syncTag' # syncTag =>
          syncRegistration /\ syncTag' = Register(syncTag)]_vars

\* the device came back online with an entry stored and no registration:
\* nothing was registered, and an event of another tag, which can be
\* dispatched here, leaves this state as it is
C20_Witness ==
  /\ networkStatus = "online"
  /\ ~syncRegistration
  /\ pending # <<>>
  /\ syncTag = "none"
  /\ drain = IdleDrain
  /\ ENABLED SyncEvent("other-tag")
====
